---- MODULE Spec2Model ----
(***************************************************************************)
(* Model of the MailAI Console run orchestrator                            *)
(* (backend/mailai/core/runner.py, class RunOrchestrator).                 *)
(*                                                                         *)
(* One orchestrator object serves every run.  An execution of execute_run  *)
(* is one asyncio task; it can only be interleaved with other tasks and    *)
(* with the pause/resume/cancel endpoints where it awaits a provider       *)
(* (search, fetch_bodies, the ranking providers, summarize).  Every action *)
(* below is therefore one atomic block of the code: from the return (or    *)
(* the raise) of one provider call up to the next provider call.           *)
(***************************************************************************)
EXTENDS Integers, Sequences, FiniteSets, TLC

(***************************************************************************)
(* Bounds of the model.                                                    *)
(***************************************************************************)
Runs == {"A", "B"}      \* run ids
MaxMsg == 2             \* messages in the mailbox: 1..MaxMsg
MaxIters == 3           \* largest max_iters a run is created with
MaxQueries == 2         \* cap on the queries planned per iteration
MaxChunks == 1          \* most chunks chunk_text yields for one message
MaxExec == 2            \* execute_run invocations per run
MaxCtl == 2             \* pause/resume/cancel calls in one behaviour

(***************************************************************************)
(* Program constants.                                                      *)
(***************************************************************************)
NumSeedPatterns == 5    \* _generate_seed_queries: len(patterns)
ExpandedCap == 3        \* _generate_expanded_queries: queries[:3]
MinNoveltyPct == 2      \* RunConfig.min_novelty_gain = 0.02, in hundredths
MinPrecisionPct == 30   \* RunConfig.min_precision = 0.3, in hundredths
Bm25TopK == 100         \* _hybrid_ranking: bm25.search(question, top_k=100)
VectorTopK == 50        \* _hybrid_ranking: vector_store.search(..., top_k=50)
BlendLexTenths == 7     \* _hybrid_ranking: bm25_score * 0.7, in tenths
BlendVecTenths == 3     \* _hybrid_ranking: knn_score * 0.3, in tenths
RerankThresholdPct == 10 \* _hybrid_ranking: rerank_score > 0.1, in hundredths
RerankCap == 50         \* MockRerankProvider.rerank: candidates[:50]
NoScore == -1           \* Chunk score columns before ranking: None

Msgs == 1..MaxMsg

\* thread id of a message (provider data): messages 2 and 3 share a thread
ThreadOf(m) == (m \div 2) + 1

\* does subject+body of the message contain a domain term (provider data)
MatchesDomainTerm(m) == m % 2 = 1

\* terms are numbers: 0 is the term set of the question, a positive number
\* a keyword of _expand_terms, a negative number a sender domain
InitialTerms == {0}

\* the keywords of _expand_terms found in the body of the message (provider
\* data): the messages with an even id hold one
KeywordsOf(m) == IF m % 2 = 0 THEN {m} ELSE {}

\* the sender domain of the message (provider data): one per thread
DomainOf(m) == 0 - ThreadOf(m)

Min(a, b) == IF a < b THEN a ELSE b
Max(a, b) == IF a > b THEN a ELSE b

RECURSIVE SetToSeq(_)
\* a provider's result list: the ids of a set in ascending order
SetToSeq(S) ==
  IF S = {} THEN <<>>
  ELSE LET m == CHOOSE x \in S : \A y \in S : x <= y
       IN <<m>> \o SetToSeq(S \ {m})

Range(s) == {s[i] : i \in 1..Len(s)}

RECURSIVE SumSeq(_)
SumSeq(s) == IF s = <<>> THEN 0 ELSE Head(s) + SumSeq(Tail(s))

VARIABLES
  current_run,   \* RunOrchestrator.current_run
  should_stop,   \* RunOrchestrator.should_stop (one flag for all runs)
  is_paused,     \* RunOrchestrator.is_paused   (one flag for all runs)
  db,            \* db[r]: the rows of run r in the database
  task,          \* task[r]: the locals of the execute_run task of run r
  run_queues,    \* EventEmitter._run_queues[r]: event types emitted for r
  ghost,         \* ghost[r]: history of run r (observation only)
  ctl,           \* number of pause/resume/cancel calls made so far
  chunker,       \* the frame of a TextProcessor.chunk_text call
  planner,       \* the frame of a RunOrchestrator._generate_queries call
  waiter         \* the frame of an EventEmitter.wait_for_run_event call

vars == <<current_run, should_stop, is_paused, db, task, run_queues, ghost, ctl,
          chunker, planner, waiter>>

NoRun == "none"

\* no call of chunk_text (of wait_for_run_event) is under way
NoCall == [pc |-> "idle"]

Terminal == {"done", "failed", "cancelled"}
NonTerminal == {"queued", "fetching", "normalizing", "ranking",
                "summarizing", "exporting"}
PhaseOrder == <<"queued", "fetching", "normalizing", "ranking",
                "summarizing", "exporting", "done">>

RetrievalPcs == {"search", "fetch"}
LaterPcs == {"normalize", "rank", "summarize"}

InitDb ==
  [status |-> NoRun, error |-> FALSE, max_iters |-> 0, agg |-> <<>>,
   messages |-> <<>>, queries |-> <<>>, terms |-> <<>>,
   chunks |-> <<>>, summaries |-> <<>>]

InitTask ==
  [pc |-> "idle", iteration |-> 0, qidx |-> 0,
   seen_messages |-> {}, seen_threads |-> {},
   iteration_messages |-> <<>>, new_messages |-> <<>>, hits |-> 0,
   queries_tried |-> 0, metrics |-> <<>>,
   current_terms |-> {}, plan_terms |-> {},
   normIdx |-> 0, newChunks |-> <<>>,
   sumQueue |-> <<>>, newSummaries |-> <<>>]

InitGhost ==
  [statusLog |-> <<>>,      \* every status written for the run, in order
   execs |-> 0,             \* execute_run invocations so far
   cancelled_in |-> "never",\* status of the run when cancel_run was called
   cancelled_at |-> "never",\* where the task was when cancel_run was called
   cancelled_exec |-> -1,   \* execs when cancel_run was called
   paused_in |-> "never",   \* where the task was when pause_run was called
   pausedAt |-> -1,         \* iteration index at which a pause broke the loop
   emitted |-> <<>>,        \* every event emitted for the run, in order
   candidates |-> <<>>,     \* the candidates last handed to the reranker
   reranked |-> <<>>]       \* the list the reranker last returned

Init ==
  /\ current_run = NoRun
  /\ should_stop = FALSE
  /\ is_paused = FALSE
  /\ db = [r \in Runs |-> InitDb]
  /\ task = [r \in Runs |-> InitTask]
  /\ run_queues = [r \in Runs |-> <<>>]
  /\ ghost = [r \in Runs |-> InitGhost]
  /\ ctl = 0
  /\ chunker = NoCall
  /\ planner = NoCall
  /\ waiter = NoCall

(***************************************************************************)
(* The context of run r: what one atomic block of its task reads and       *)
(* writes.  The operators below are the code of the block, as functions    *)
(* from context to context.                                                *)
(***************************************************************************)
Ctx(r) == [db |-> db[r], task |-> task[r], queue |-> run_queues[r],
           ghost |-> ghost[r]]

Install(r, c) ==
  /\ db' = [db EXCEPT ![r] = c.db]
  /\ task' = [task EXCEPT ![r] = c.task]
  /\ run_queues' = [run_queues EXCEPT ![r] = c.queue]
  /\ ghost' = [ghost EXCEPT ![r] = c.ghost]

\* _update_run_status: no effect when the run row does not exist; err tells
\* whether error_msg is truthy ("if error_msg:"), the error is then attached
update_run_status(c, st, err) ==
  IF c.db.status = NoRun THEN c
  ELSE [c EXCEPT !.db.status = st,
                 !.db.error = (@ \/ err),
                 !.ghost.statusLog = Append(@, st)]

\* EventEmitter.emit: append to the run's queue
emit(c, ev) ==
  [c EXCEPT !.queue = Append(@, ev), !.ghost.emitted = Append(@, ev)]

\* the task ends: its frame is gone
EndTask(c) ==
  [c EXCEPT !.task.pc = "idle", !.task.iteration_messages = <<>>,
            !.task.new_messages = <<>>, !.task.hits = 0, !.task.qidx = 0,
            !.task.normIdx = 0, !.task.newChunks = <<>>,
            !.task.sumQueue = <<>>, !.task.newSummaries = <<>>]

FailWithRollback(c, msg) ==
  EndTask(update_run_status(
            [c EXCEPT !.db.messages = <<>>, !.db.queries = <<>>,
                      !.db.terms = <<>>, !.db.chunks = <<>>],
            "failed", msg))

\* the two except blocks: _execute_run_phases and execute_run both write
\* FAILED with error_msg = str(e); msg tells whether str(e) is non-empty
Fail(c, msg) ==
  EndTask(update_run_status(update_run_status(c, "failed", msg), "failed", msg))

\* _finalize_run without the status write
FinalizeWithoutDone(c) ==
  LET c1 == [c EXCEPT !.db.agg = <<Len(c.task.metrics),
                                   SumSeq([i \in 1..Len(c.task.metrics) |->
                                            c.task.metrics[i].new_messages])>>]
  IN emit(c1, "run_complete")

\* _finalize_run
finalize_run(c) ==
  LET c1 == [c EXCEPT !.db.status = "done",
                      !.db.error = FALSE,
                      !.db.agg = <<Len(c.task.metrics),
                                   SumSeq([i \in 1..Len(c.task.metrics) |->
                                            c.task.metrics[i].new_messages])>>,
                      !.ghost.statusLog = Append(@, "done")]
  IN emit(c1, "run_complete")

\* phase 6 and completion
StatusBeforeFinalize == "exporting"
prepare_exports_and_finish(c) ==
  EndTask(finalize_run(update_run_status(c, StatusBeforeFinalize, FALSE)))

\* thread_chunks.keys(): threads of the selected chunks, first appearance first
ThreadsInOrder(chs) ==
  LET first == SelectSeq([k \in 1..Len(chs) |-> k],
                         LAMBDA k :
                           /\ chs[k].selected
                           /\ \A j \in 1..(k - 1) :
                                ~(/\ chs[j].selected
                                  /\ ThreadOf(chs[j].gmail_id)
                                       = ThreadOf(chs[k].gmail_id)))
  IN [i \in 1..Len(first) |-> ThreadOf(chs[first[i]].gmail_id)]

\* phase 5 up to the first llm.summarize call
StatusSummarizing == "summarizing"
generate_summaries_start(c) ==
  LET c1 == update_run_status(c, StatusSummarizing, FALSE)
      q == ThreadsInOrder(c.db.chunks)
  IN IF q = <<>> THEN prepare_exports_and_finish(c1)
     ELSE [c1 EXCEPT !.task.pc = "summarize", !.task.sumQueue = q,
                     !.task.newSummaries = <<>>]

StatusRankingSkipped == "summarizing"

\* phase 4 up to the first ranking provider call
StatusRanking == "ranking"
hybrid_ranking_start(c) ==
  LET c1 == update_run_status(c, StatusRanking, FALSE)
  IN IF c.db.chunks = <<>> THEN generate_summaries_start(c1)
     ELSE [c1 EXCEPT !.task.pc = "rank"]

\* phase 3 up to the first fetch_bodies call
StatusNormalizing == "normalizing"
normalize_and_chunk_start(c) ==
  LET c1 == update_run_status(c, StatusNormalizing, FALSE)
  IN IF c.db.messages = <<>> THEN hybrid_ranking_start(c1)
     ELSE [c1 EXCEPT !.task.pc = "normalize", !.task.normIdx = 1,
                     !.task.newChunks = <<>>]

\* _execute_run_phases after _iterative_retrieval returned
after_retrieval(c, stop) ==
  LET c0 == [c EXCEPT !.task.iteration_messages = <<>>, !.task.qidx = 0]
  IN IF stop THEN EndTask(update_run_status(c0, "cancelled", FALSE))
     ELSE normalize_and_chunk_start(c0)

\* _generate_queries: the number of queries planned for the iteration
generate_queries(iteration) ==
  IF iteration = 0 THEN Min(NumSeedPatterns, MaxQueries)
  ELSE Min(ExpandedCap, MaxQueries)

LoopTopOneMore(c, stop, paused) ==
  IF c.task.iteration > c.db.max_iters THEN after_retrieval(c, stop)
  ELSE IF stop \/ paused
       THEN after_retrieval(
              [c EXCEPT !.ghost.pausedAt =
                          IF paused /\ ~stop THEN c.task.iteration ELSE @],
              stop)
       ELSE [c EXCEPT !.task.pc = "search", !.task.qidx = 1,
                      !.task.iteration_messages = <<>>,
                      !.task.queries_tried = 0,
                      !.task.plan_terms = c.task.current_terms]

LoopTopSeedTerms(c, stop, paused) ==
  IF c.task.iteration >= c.db.max_iters THEN after_retrieval(c, stop)
  ELSE IF stop \/ paused
       THEN after_retrieval(
              [c EXCEPT !.ghost.pausedAt =
                          IF paused /\ ~stop THEN c.task.iteration ELSE @],
              stop)
       ELSE [c EXCEPT !.task.pc = "search", !.task.qidx = 1,
                      !.task.iteration_messages = <<>>,
                      !.task.queries_tried = 0,
                      !.task.plan_terms = InitialTerms]

\* top of the for loop of _iterative_retrieval, c.task.iteration is the
\* index; plan_terms is the term list the queries are generated from
loop_top(c, stop, paused) ==
  IF c.task.iteration >= c.db.max_iters THEN after_retrieval(c, stop)
  ELSE IF stop \/ paused
       THEN after_retrieval(
              [c EXCEPT !.ghost.pausedAt =
                          IF paused /\ ~stop THEN c.task.iteration ELSE @],
              stop)
       ELSE [c EXCEPT !.task.pc = "search", !.task.qidx = 1,
                      !.task.iteration_messages = <<>>,
                      !.task.queries_tried = 0,
                      !.task.plan_terms = c.task.current_terms]

\* _calculate_precision_proxy, as <<matching, total>> (0.0 is <<0, 1>>)
calculate_precision_proxy(messages) ==
  IF messages = <<>> THEN <<0, 1>>
  ELSE <<Cardinality({i \in 1..Len(messages) : MatchesDomainTerm(messages[i])}),
         Len(messages)>>

\* a ratio <<n, d>> is below pct/100
Below(ratio, pct) == ratio[1] * 100 < pct * ratio[2]

CheckPrecisionFirst(metrics) ==
  IF Len(metrics) < 2 THEN <<FALSE, "none">>
  ELSE LET a == metrics[Len(metrics) - 1]
           b == metrics[Len(metrics)]
       IN IF Below(a.precision_proxy, MinPrecisionPct)
             /\ Below(b.precision_proxy, MinPrecisionPct)
          THEN <<TRUE, "precision">>
          ELSE IF Below(a.novelty_gain, MinNoveltyPct)
                  /\ Below(b.novelty_gain, MinNoveltyPct)
          THEN <<TRUE, "novelty">>
          ELSE <<FALSE, "none">>

CheckNoveltyOnly(metrics) ==
  IF Len(metrics) < 2 THEN <<FALSE, "none">>
  ELSE LET a == metrics[Len(metrics) - 1]
           b == metrics[Len(metrics)]
       IN IF Below(a.novelty_gain, MinNoveltyPct)
             /\ Below(b.novelty_gain, MinNoveltyPct)
          THEN <<TRUE, "novelty">>
          ELSE <<FALSE, "none">>

CheckFirstAndLast(metrics) ==
  IF Len(metrics) < 2 THEN <<FALSE, "none">>
  ELSE LET a == metrics[1]
           b == metrics[Len(metrics)]
       IN IF Below(a.novelty_gain, MinNoveltyPct)
             /\ Below(b.novelty_gain, MinNoveltyPct)
          THEN <<TRUE, "novelty">>
          ELSE IF Below(a.precision_proxy, MinPrecisionPct)
                  /\ Below(b.precision_proxy, MinPrecisionPct)
          THEN <<TRUE, "precision">>
          ELSE <<FALSE, "none">>

\* _check_stopping_conditions
check_stopping_conditions(metrics) ==
  IF Len(metrics) < 2 THEN <<FALSE, "none">>
  ELSE LET a == metrics[Len(metrics) - 1]
           b == metrics[Len(metrics)]
       IN IF Below(a.novelty_gain, MinNoveltyPct)
             /\ Below(b.novelty_gain, MinNoveltyPct)
          THEN <<TRUE, "novelty">>
          ELSE IF Below(a.precision_proxy, MinPrecisionPct)
                  /\ Below(b.precision_proxy, MinPrecisionPct)
          THEN <<TRUE, "precision">>
          ELSE <<FALSE, "none">>

ExpandReplaces(messages, current_terms) ==
  UNION {KeywordsOf(messages[i]) : i \in 1..Len(messages)}

\* _expand_terms: the current terms, the keywords found in the bodies and
\* the sender domains that occur more than once
expand_terms(messages, current_terms) ==
  current_terms
    \cup UNION {KeywordsOf(messages[i]) : i \in 1..Len(messages)}
    \cup {DomainOf(messages[i]) :
            i \in {k \in 1..Len(messages) :
                     \E j \in 1..Len(messages) :
                       j # k /\ DomainOf(messages[j]) = DomainOf(messages[k])}}

\* _store_term_expansion
store_term_expansion(c, iteration, new_terms, old_terms) ==
  [c EXCEPT !.db.terms = Append(@, [iteration |-> iteration,
                                    added |-> new_terms \ old_terms,
                                    removed |-> old_terms \ new_terms,
                                    evidence |-> new_terms])]

\* the novelty gain with the denominator not guarded
NoveltyUnguarded(new_thread_ids, seen_threads) ==
  <<Cardinality(new_thread_ids), Cardinality(seen_threads)>>

\* len(new_thread_ids) / max(len(seen_threads), 1), as <<n, d>>
novelty_gain(new_thread_ids, seen_threads) ==
  <<Cardinality(new_thread_ids), Max(Cardinality(seen_threads), 1)>>

\* _iterative_retrieval from "Process iteration results" to the next await
end_iteration(c, stop, paused) ==
  LET t == c.task
      im == t.iteration_messages
      new_msg_ids == Range(im) \ t.seen_messages
      new_thread_ids == {ThreadOf(m) : m \in Range(im)} \ t.seen_threads
      seen_m == t.seen_messages \cup new_msg_ids
      seen_t == t.seen_threads \cup new_thread_ids
      iter_metrics ==
        [iteration |-> t.iteration,
         queries_tried |-> t.queries_tried,
         new_messages |-> Cardinality(new_msg_ids),
         new_threads |-> Cardinality(new_thread_ids),
         precision_proxy |-> calculate_precision_proxy(im),
         novelty_gain |-> novelty_gain(new_thread_ids, seen_t),
         stop_reason |-> "none"]
      metrics1 == Append(t.metrics, iter_metrics)
      check == IF t.iteration >= 1 THEN check_stopping_conditions(metrics1)
               ELSE <<FALSE, "none">>
      c1 == emit([c EXCEPT !.task.seen_messages = seen_m,
                           !.task.seen_threads = seen_t,
                           !.db.messages = @ \o im,
                           !.task.metrics = metrics1],
                 "iteration_complete")
  IN IF check[1]
     THEN after_retrieval(
            [c1 EXCEPT !.task.metrics[Len(metrics1)].stop_reason = check[2]],
            stop)
     ELSE LET expanded_terms == expand_terms(im, t.current_terms)
              c2 == IF t.iteration < c.db.max_iters - 1
                    THEN [store_term_expansion(c1, t.iteration + 1,
                                               expanded_terms, t.current_terms)
                            EXCEPT !.task.current_terms = expanded_terms]
                    ELSE c1
          IN loop_top([c2 EXCEPT !.task.iteration = t.iteration + 1],
                      stop, paused)

\* the for loop over the planned queries, after query qidx is done
next_query(c, stop, paused) ==
  IF c.task.qidx < generate_queries(c.task.iteration) /\ ~stop
  THEN [c EXCEPT !.task.pc = "search", !.task.qidx = @ + 1,
                 !.task.new_messages = <<>>, !.task.hits = 0]
  ELSE end_iteration([c EXCEPT !.task.new_messages = <<>>, !.task.hits = 0],
                     stop, paused)

\* _store_query
store_query(c, hits, new_msgs) ==
  [c EXCEPT !.db.queries = Append(@, [iteration |-> c.task.iteration,
                                      hits |-> hits, new_msgs |-> new_msgs]),
            !.task.queries_tried = @ + 1]

\* a ChunkRecord as _normalize_and_chunk creates it
Chunk(g, i) ==
  [gmail_id |-> g, idx |-> i, selected |-> FALSE,
   bm25_score |-> NoScore, knn_score |-> NoScore, rerank_score |-> NoScore]

\* chunk_id of a ChunkRecord: f"{gmail_id}_{idx}"
ChunkId(ch) == <<ch.gmail_id, ch.idx>>

Reverse(s) == [i \in 1..Len(s) |-> s[Len(s) + 1 - i]]

Truncate(s, k) == SubSeq(s, 1, Min(k, Len(s)))

\* provider data, in hundredths: hits is the set of chunk ids whose text
\* the provider scores high
LexScore(hits, id) == IF id \in hits THEN 50 ELSE 0
VecScore(hits, id) == IF id \in hits THEN 80 ELSE 10
RerankScore(hits, id) == IF id \in hits THEN 60 ELSE 10

\* MockBM25Provider.search: the entries with a positive score, best first
\* (stable), cut to top_k; one entry per indexed text
bm25_search(hits, ids, top_k) ==
  LET scored == [i \in 1..Len(ids) |-> <<ids[i], LexScore(hits, ids[i])>>]
  IN Truncate(SelectSeq(scored, LAMBDA e : e[2] > 0), top_k)

\* MockVectorStore.search: argsort(similarities)[-top_k:][::-1]
vector_search(hits, ids, top_k) ==
  LET scored == [i \in 1..Len(ids) |-> <<ids[i], VecScore(hits, ids[i])>>]
      high == SelectSeq(scored, LAMBDA e : e[1] \in hits)
      low == SelectSeq(scored, LAMBDA e : e[1] \notin hits)
  IN Truncate(Reverse(high) \o Reverse(low), top_k)

\* MockRerankProvider.rerank: every candidate gets the provider's own
\* score, best first (stable), cut to the first RerankCap
rerank(hits, candidates) ==
  LET scored == [i \in 1..Len(candidates) |->
                  <<candidates[i][1], RerankScore(hits, candidates[i][1])>>]
      high == SelectSeq(scored, LAMBDA e : e[1] \in hits)
      low == SelectSeq(scored, LAMBDA e : e[1] \notin hits)
  IN Truncate(high \o low, RerankCap)

\* dict(results).get(id, 0.0): the last entry of the id, 0 without one
ScoreOf(results, id) ==
  LET at == {j \in 1..Len(results) : results[j][1] = id}
  IN IF at = {} THEN 0
     ELSE results[CHOOSE j \in at : \A k \in at : k <= j][2]

\* _hybrid_ranking, the candidates handed to the reranker: <<chunk_id,
\* blended score>>, the blended score in thousandths
blend(chunks, bm25_results, vector_results) ==
  [k \in 1..Len(chunks) |->
     <<ChunkId(chunks[k]),
       ScoreOf(bm25_results, ChunkId(chunks[k])) * BlendLexTenths
         + ScoreOf(vector_results, ChunkId(chunks[k])) * BlendVecTenths>>]

RankKeepSelected(chunks, bm25_results, vector_results, reranked) ==
  [k \in 1..Len(chunks) |->
     [chunks[k] EXCEPT
        !.bm25_score = ScoreOf(bm25_results, ChunkId(chunks[k])),
        !.knn_score = ScoreOf(vector_results, ChunkId(chunks[k])),
        !.rerank_score = ScoreOf(reranked, ChunkId(chunks[k])),
        !.selected = @ \/ ScoreOf(reranked, ChunkId(chunks[k]))
                            > RerankThresholdPct]]

RankKeepsBlended(chunks, bm25_results, vector_results, reranked) ==
  [k \in 1..Len(chunks) |->
     [chunks[k] EXCEPT
        !.bm25_score = ScoreOf(bm25_results, ChunkId(chunks[k])),
        !.knn_score = ScoreOf(vector_results, ChunkId(chunks[k])),
        !.rerank_score =
          blend(chunks, bm25_results, vector_results)[k][2] \div 10,
        !.selected = blend(chunks, bm25_results, vector_results)[k][2] \div 10
                       > RerankThresholdPct]]

\* _hybrid_ranking, the rows it writes: the three scores and the flag
rank_chunks(chunks, bm25_results, vector_results, reranked) ==
  [k \in 1..Len(chunks) |->
     [chunks[k] EXCEPT
        !.bm25_score = ScoreOf(bm25_results, ChunkId(chunks[k])),
        !.knn_score = ScoreOf(vector_results, ChunkId(chunks[k])),
        !.rerank_score = ScoreOf(reranked, ChunkId(chunks[k])),
        !.selected = ScoreOf(reranked, ChunkId(chunks[k]))
                       > RerankThresholdPct]]

\* the ranking stage with the three providers' data lex, vec and rr
hybrid_ranking(chunks, lex, vec, rr) ==
  LET ids == [k \in 1..Len(chunks) |-> ChunkId(chunks[k])]
      bm25_results == bm25_search(lex, ids, Bm25TopK)
      vector_results == vector_search(vec, ids, VectorTopK)
      candidates == blend(chunks, bm25_results, vector_results)
  IN rank_chunks(chunks, bm25_results, vector_results,
                 rerank(rr, candidates))

(***************************************************************************)
(* Actions.                                                                *)
(***************************************************************************)
\* RunOrchestrator.create_run (called by POST /runs)
create_run(r, mi) ==
  /\ db[r].status = NoRun
  /\ db' = [db EXCEPT ![r].status = "queued", ![r].max_iters = mi]
  /\ ghost' = [ghost EXCEPT ![r].statusLog = <<"queued">>]
  /\ UNCHANGED <<chunker, planner, waiter, current_run, should_stop, is_paused, task, run_queues, ctl>>

\* execute_run on a run id that is not in the database
execute_run_missing(r) ==
  /\ db[r].status = NoRun
  /\ task[r].pc = "idle"
  /\ current_run' = r
  /\ should_stop' = FALSE
  /\ ghost' = [ghost EXCEPT ![r].execs = @ + 1]
  /\ UNCHANGED <<chunker, planner, waiter, is_paused, db, task, run_queues, ctl>>

\* execute_run up to the first provider call
execute_run(r) ==
  /\ db[r].status # NoRun
  /\ task[r].pc = "idle"
  /\ current_run' = r
  /\ should_stop' = FALSE
  /\ LET c0 == [Ctx(r) EXCEPT !.ghost.execs = @ + 1,
                              !.task.metrics = <<>>,
                              !.task.seen_messages = {},
                              !.task.seen_threads = {},
                              !.task.current_terms = InitialTerms,
                              !.task.iteration = 0]
         c1 == emit(update_run_status(c0, "fetching", FALSE), "phase_started")
     IN Install(r, loop_top(c1, FALSE, is_paused))
  /\ UNCHANGED <<chunker, planner, waiter, is_paused, ctl>>

\* gmail.search returns the metadata of the messages in res
gmail_search_returns(r, res) ==
  /\ task[r].pc = "search"
  /\ LET c == Ctx(r)
         metas == SetToSeq(res)
         new_messages == SelectSeq(metas, LAMBDA m : m \notin c.task.seen_messages)
     IN IF new_messages # <<>>
        THEN Install(r, [c EXCEPT !.task.pc = "fetch",
                                  !.task.new_messages = new_messages,
                                  !.task.hits = Len(metas)])
        ELSE Install(r, next_query(store_query(c, Len(metas), 0),
                                   should_stop, is_paused))
  /\ UNCHANGED <<chunker, planner, waiter, current_run, should_stop, is_paused, ctl>>

SearchRaiseIsFatal(r) ==
  /\ task[r].pc = "search"
  /\ Install(r, Fail(Ctx(r), TRUE))
  /\ UNCHANGED <<chunker, planner, waiter, current_run, should_stop, is_paused, ctl>>

\* gmail.search raises: the query is skipped
gmail_search_raises(r) ==
  /\ task[r].pc = "search"
  /\ Install(r, next_query(Ctx(r), should_stop, is_paused))
  /\ UNCHANGED <<chunker, planner, waiter, current_run, should_stop, is_paused, ctl>>

\* gmail.fetch_bodies returns the requested messages
fetch_bodies_returns(r) ==
  /\ task[r].pc = "fetch"
  /\ LET c == Ctx(r)
         c1 == [c EXCEPT !.task.iteration_messages = @ \o c.task.new_messages]
     IN Install(r, next_query(store_query(c1, c.task.hits,
                                          Len(c.task.new_messages)),
                              should_stop, is_paused))
  /\ UNCHANGED <<chunker, planner, waiter, current_run, should_stop, is_paused, ctl>>

\* gmail.fetch_bodies raises: the query is skipped, no QueryRecord
fetch_bodies_raises(r) ==
  /\ task[r].pc = "fetch"
  /\ Install(r, next_query(Ctx(r), should_stop, is_paused))
  /\ UNCHANGED <<chunker, planner, waiter, current_run, should_stop, is_paused, ctl>>

\* _normalize_and_chunk: fetch_bodies([msg.gmail_id]) returned and the
\* cleaned body was split into n chunks (0: no message, or an empty body)
normalize_fetch_returns(r, n) ==
  /\ task[r].pc = "normalize"
  /\ LET c == Ctx(r)
         k == c.task.normIdx
         g == c.db.messages[k]
         made == [i \in 1..n |-> Chunk(g, i - 1)]
         c1 == [c EXCEPT !.task.newChunks = @ \o made]
     IN IF k < Len(c.db.messages)
        THEN Install(r, [c1 EXCEPT !.task.normIdx = k + 1])
        ELSE Install(r, hybrid_ranking_start(
                          [c1 EXCEPT !.db.chunks = @ \o c1.task.newChunks,
                                     !.task.newChunks = <<>>,
                                     !.task.normIdx = 0]))
  /\ UNCHANGED <<chunker, planner, waiter, current_run, should_stop, is_paused, ctl>>

\* a provider call of phases 3 to 5 raises: the phase's session is closed
\* without commit and the run is marked FAILED; msg: str(e) is non-empty
phase_raises(r, msg) ==
  /\ task[r].pc \in LaterPcs
  /\ Install(r, Fail(Ctx(r), msg))
  /\ UNCHANGED <<chunker, planner, waiter, current_run, should_stop, is_paused, ctl>>

\* _hybrid_ranking: the providers returned; lex, vec and rr are the sets of
\* chunk ids that the lexical index, the vector index and the reranker
\* score high
hybrid_ranking_returns(r, lex, vec, rr) ==
  /\ task[r].pc = "rank"
  /\ LET c == Ctx(r)
         chs == c.db.chunks
         ids == [k \in 1..Len(chs) |-> ChunkId(chs[k])]
         candidates == blend(chs, bm25_search(lex, ids, Bm25TopK),
                             vector_search(vec, ids, VectorTopK))
     IN Install(r, generate_summaries_start(
                     [c EXCEPT !.db.chunks = hybrid_ranking(chs, lex, vec, rr),
                               !.ghost.candidates = candidates,
                               !.ghost.reranked = rerank(rr, candidates)]))
  /\ UNCHANGED <<chunker, planner, waiter, current_run, should_stop, is_paused, ctl>>

\* _generate_summaries: llm.summarize returned for the head of the queue;
\* cited is the set of gmail_id values of the bullets it returned, stored
\* as they are in bullets_json
summarize_returns(r, cited) ==
  /\ task[r].pc = "summarize"
  /\ LET c == Ctx(r)
         summary == [thread_id |-> Head(c.task.sumQueue), bullets |-> cited]
         c1 == [c EXCEPT !.task.newSummaries = Append(@, summary),
                         !.task.sumQueue = Tail(@)]
     IN IF c1.task.sumQueue # <<>>
        THEN Install(r, c1)
        ELSE Install(r, prepare_exports_and_finish(
                          [c1 EXCEPT !.db.summaries = @ \o c1.task.newSummaries]))
  /\ UNCHANGED <<chunker, planner, waiter, current_run, should_stop, is_paused, ctl>>

\* where the task of run r is, for the history
Where(r) ==
  IF task[r].pc \in RetrievalPcs THEN "retrieval"
  ELSE IF task[r].pc \in LaterPcs THEN "phases"
  ELSE "idle"

\* RunOrchestrator.pause_run
pause_run(r) ==
  /\ ctl' = ctl + 1
  /\ is_paused' = TRUE
  /\ LET c == [Ctx(r) EXCEPT !.ghost.paused_in = Where(r)]
     IN Install(r, update_run_status(c, "paused", FALSE))
  /\ UNCHANGED <<chunker, planner, waiter, current_run, should_stop>>

\* RunOrchestrator.resume_run
resume_run(r) ==
  /\ ctl' = ctl + 1
  /\ is_paused' = FALSE
  /\ ghost' = [ghost EXCEPT ![r].paused_in = "never"]
  /\ UNCHANGED <<chunker, planner, waiter, current_run, should_stop, db, task, run_queues>>

\* RunOrchestrator.cancel_run
cancel_run(r) ==
  /\ ctl' = ctl + 1
  /\ should_stop' = TRUE
  /\ LET c == [Ctx(r) EXCEPT !.ghost.cancelled_in = db[r].status,
                             !.ghost.cancelled_at = Where(r),
                             !.ghost.cancelled_exec = ghost[r].execs]
     IN Install(r, update_run_status(c, "cancelled", FALSE))
  /\ UNCHANGED <<chunker, planner, waiter, current_run, is_paused>>

\* the provider calls of the retrieval phase return
RetrievalReturns(r, results) ==
  \/ \E res \in results : gmail_search_returns(r, res)
  \/ fetch_bodies_returns(r)

\* the provider calls of the retrieval phase raise
RetrievalRaises(r) ==
  \/ gmail_search_raises(r)
  \/ fetch_bodies_raises(r)

\* the provider calls of the later phases return or raise
PhaseStep(r, counts, selections, citations, msgs) ==
  \/ \E n \in counts : normalize_fetch_returns(r, n)
  \/ \E sel \in selections : hybrid_ranking_returns(r, sel, sel, sel)
  \/ \E cited \in citations : summarize_returns(r, cited)
  \/ \E msg \in msgs : phase_raises(r, msg)

ChunkIds == Msgs \X (0..(MaxChunks - 1))

(***************************************************************************)
(* Spec: one run, executed once, no control call; the providers answer     *)
(* every way they can.                                                     *)
(***************************************************************************)
Next ==
  \/ \E mi \in {0, MaxIters} : create_run("A", mi)
  \/ (ghost["A"].execs < 1 /\ execute_run_missing("A"))
  \/ (ghost["A"].execs < 1 /\ execute_run("A"))
  \/ RetrievalReturns("A", SUBSET Msgs)
  \/ RetrievalRaises("A")
  \/ PhaseStep("A", 0..MaxChunks, SUBSET ChunkIds, SUBSET Msgs, BOOLEAN)

Spec == Init /\ [][Next]_vars

(***************************************************************************)
(* SpecCtl: one run with the control endpoints and repeated execute_run;   *)
(* the mailbox holds message 1 only.                                       *)
(***************************************************************************)
CtlIters == 2           \* max_iters of the runs of SpecCtl and SpecTwo

ControlStep(r) ==
  \/ (ctl < MaxCtl /\ pause_run(r))
  \/ (ctl < MaxCtl /\ resume_run(r))
  \/ (ctl < MaxCtl /\ cancel_run(r))

NextCtl ==
  \/ create_run("A", CtlIters)
  \/ (ghost["A"].execs < MaxExec /\ execute_run("A"))
  \/ RetrievalReturns("A", {{}, {1}})
  \/ PhaseStep("A", {1}, {{}, ChunkIds}, {{1}}, {TRUE})
  \/ ControlStep("A")

SpecCtl == Init /\ [][NextCtl]_vars

(***************************************************************************)
(* SpecTwo: two runs on the one orchestrator, each executed once.          *)
(***************************************************************************)
NextTwo ==
  \E r \in Runs :
    \/ create_run(r, CtlIters)
    \/ (ghost[r].execs < 1 /\ execute_run(r))
    \/ RetrievalReturns(r, {{1}})
    \/ PhaseStep(r, {1}, {ChunkIds}, {{1}}, {TRUE})
    \/ ControlStep(r)

SpecTwo == Init /\ [][NextTwo]_vars

(***************************************************************************)
(* SpecLive: one run, executed once, with cancel_run and pause_run; every  *)
(* provider call that is awaited returns or raises in the end, and the     *)
(* event loop then resumes the task.                                       *)
(***************************************************************************)
TaskStep(r) ==
  \/ RetrievalReturns(r, {{}, {1}})
  \/ RetrievalRaises(r)
  \/ PhaseStep(r, {0, 1}, {{}, ChunkIds}, {{1}}, {TRUE})

NextLive ==
  \/ create_run("A", CtlIters)
  \/ (ghost["A"].execs < 1 /\ execute_run("A"))
  \/ TaskStep("A")
  \/ (ctl < MaxCtl /\ pause_run("A"))
  \/ (ctl < MaxCtl /\ cancel_run("A"))

\* weak fairness of the task's steps, WF_vars(TaskStep("A")), with ENABLED
\* written out: a step of the task is enabled exactly when the task is
\* not idle
TaskFairness ==
  []<>(task["A"].pc = "idle") \/ []<><<TaskStep("A")>>_vars

SpecLive == Init /\ [][NextLive]_vars /\ TaskFairness

(***************************************************************************)
(* SpecWait: one run, executed once, and one caller of                     *)
(* EventEmitter.wait_for_run_event on the run's queue.  The caller's steps *)
(* are taken when they can be (the event loop resumes it, and the timeout  *)
(* of a blocked queue.get() elapses).                                      *)
(***************************************************************************)
\* the event type lists waited for
WaitedTypes == {{"run_complete"}, {"iteration_complete"}, {"run_failed"}}

\* wait_for_run_event is called: queue.get() is awaited under the timeout
wait_for_run_event(r, event_types) ==
  /\ waiter.pc = "idle"
  /\ waiter' = [pc |-> "get", run |-> r, event_types |-> event_types,
                event |-> "none", result |-> "pending"]
  /\ UNCHANGED <<current_run, should_stop, is_paused, db, task, run_queues,
                 ghost, ctl, chunker, planner>>

\* queue.get() takes the first event of the queue
wait_get ==
  /\ waiter.pc = "get"
  /\ run_queues[waiter.run] # <<>>
  /\ waiter' = [waiter EXCEPT !.pc = "got",
                              !.event = Head(run_queues[waiter.run])]
  /\ run_queues' = [run_queues EXCEPT ![waiter.run] = Tail(@)]
  /\ UNCHANGED <<current_run, should_stop, is_paused, db, task, ghost, ctl,
                 chunker, planner>>

\* the caller goes on with the event: it returns it, or puts it back at the
\* end of the queue and awaits queue.get() again
wait_resume ==
  /\ waiter.pc = "got"
  /\ IF waiter.event \in waiter.event_types
     THEN /\ waiter' = [waiter EXCEPT !.pc = "returned",
                                      !.result = waiter.event,
                                      !.event = "none"]
          /\ UNCHANGED run_queues
     ELSE /\ waiter' = [waiter EXCEPT !.pc = "get", !.event = "none"]
          /\ run_queues' = [run_queues EXCEPT
                              ![waiter.run] = Append(@, waiter.event)]
  /\ UNCHANGED <<current_run, should_stop, is_paused, db, task, ghost, ctl,
                 chunker, planner>>

\* the timeout elapses while queue.get() waits on the empty queue
wait_timeout ==
  /\ waiter.pc = "get"
  /\ run_queues[waiter.run] = <<>>
  /\ waiter' = [waiter EXCEPT !.pc = "returned", !.result = "None"]
  /\ UNCHANGED <<current_run, should_stop, is_paused, db, task, run_queues,
                 ghost, ctl, chunker, planner>>

WaitStep == wait_get \/ wait_resume \/ wait_timeout

NextWait ==
  \/ create_run("A", CtlIters)
  \/ (ghost["A"].execs < 1 /\ execute_run("A"))
  \/ RetrievalReturns("A", {{}, {1}})
  \/ PhaseStep("A", {1}, {{}, ChunkIds}, {{1}}, {TRUE})
  \/ \E event_types \in WaitedTypes : wait_for_run_event("A", event_types)
  \/ WaitStep

SpecWait == Init /\ [][NextWait]_vars /\ WF_vars(WaitStep)

(***************************************************************************)
(* SpecRank: the ranking stage on large chunk sets.  Run A, created with   *)
(* max_iters = 1, has finished retrieval and normalization: its first      *)
(* seed query returned the messages 1..n, the second one the messages 1..d *)
(* again, every MessageRecord gave one chunk, and the task awaits the      *)
(* ranking providers.                                                      *)
(***************************************************************************)
MaxRankMsgs == 150      \* most messages of the run

RankRows(n, d) == [i \in 1..(n + d) |-> IF i <= n THEN i ELSE i - n]

RECURSIVE EmptyQueries(_, _)
\* the remaining k seed queries return nothing
EmptyQueries(c, k) ==
  IF k <= 0 THEN c ELSE EmptyQueries(store_query(c, 0, 0), k - 1)

RankStart(n, d) ==
  LET rows == RankRows(n, d)
      c0 == [db |-> [InitDb EXCEPT !.status = "queued", !.max_iters = 1],
             task |-> [InitTask EXCEPT !.current_terms = InitialTerms],
             queue |-> <<>>,
             ghost |-> [InitGhost EXCEPT !.statusLog = <<"queued">>,
                                         !.execs = 1]]
      c1 == loop_top(emit(update_run_status(c0, "fetching", FALSE),
                          "phase_started"), FALSE, FALSE)
      c2 == store_query([c1 EXCEPT !.task.iteration_messages = SubSeq(rows, 1, n)],
                        n, n)
      c3 == store_query([c2 EXCEPT !.task.iteration_messages = rows], d, d)
      c4 == EmptyQueries([c3 EXCEPT !.task.qidx = generate_queries(0)],
                         generate_queries(0) - 2)
      c5 == end_iteration(c4, FALSE, FALSE)
  IN hybrid_ranking_start(
       [c5 EXCEPT !.db.chunks = [k \in 1..Len(rows) |-> Chunk(rows[k], 0)],
                  !.task.normIdx = 0])

RankSizes == {1, 2, RerankCap + 1, Bm25TopK + 1, MaxRankMsgs}

\* the sets of chunk ids a ranking provider may score high
RankHitSets ==
  {{}, (1..MaxRankMsgs) \X {0}, {1} \X {0},
   {m \in 1..MaxRankMsgs : m % 2 = 0} \X {0}}

InitRank ==
  \E n \in RankSizes : \E d \in {0, 1, n} :
    /\ current_run = "A"
    /\ should_stop = FALSE
    /\ is_paused = FALSE
    /\ db = [r \in Runs |-> IF r = "A" THEN RankStart(n, d).db ELSE InitDb]
    /\ task = [r \in Runs |-> IF r = "A" THEN RankStart(n, d).task
                               ELSE InitTask]
    /\ run_queues = [r \in Runs |-> IF r = "A" THEN RankStart(n, d).queue
                                     ELSE <<>>]
    /\ ghost = [r \in Runs |-> IF r = "A" THEN RankStart(n, d).ghost
                                ELSE InitGhost]
    /\ ctl = 0
    /\ chunker = NoCall
    /\ planner = NoCall
    /\ waiter = NoCall

NextRank ==
  \/ \E lex \in RankHitSets : \E vec \in RankHitSets : \E rr \in RankHitSets :
       hybrid_ranking_returns("A", lex, vec, rr)
  \/ phase_raises("A", TRUE)

SpecRank == InitRank /\ [][NextRank]_vars

(***************************************************************************)
(* SpecChunk: TextProcessor.chunk_text on every short text.  A text is a   *)
(* sequence of characters, Space or a letter; its words are what            *)
(* str.split() gives, the maximal runs of letters.                         *)
(***************************************************************************)
MaxTextLen == 7         \* most characters of a text
MaxChunkSize == 3       \* largest chunk_size tried
MaxOverlap == 3         \* largest overlap tried

Space == 0
Letters == {1, 2}
Texts == UNION {[1..n -> {Space} \cup Letters] : n \in 0..MaxTextLen}

\* the length of the run of letters a text starts with
WordLen(t) ==
  IF \E i \in 1..Len(t) : t[i] = Space
  THEN (CHOOSE i \in 1..Len(t) :
          t[i] = Space /\ \A j \in 1..(i - 1) : t[j] # Space) - 1
  ELSE Len(t)

RECURSIVE Split(_)
\* text.split(): the words of the text, whitespace dropped
Split(t) ==
  IF t = <<>> THEN <<>>
  ELSE IF Head(t) = Space THEN Split(Tail(t))
  ELSE <<SubSeq(t, 1, WordLen(t))>> \o Split(SubSeq(t, WordLen(t) + 1, Len(t)))

RECURSIVE Join(_)
\* ' '.join(words)
Join(ws) ==
  IF ws = <<>> THEN <<>>
  ELSE IF Len(ws) = 1 THEN ws[1]
  ELSE ws[1] \o <<Space>> \o Join(Tail(ws))

RECURSIVE Squeeze(_)
\* re.sub(r'[ \t]+', ' ', body): a run of spaces becomes one space
Squeeze(t) ==
  IF Len(t) < 2 THEN t
  ELSE IF t[1] = Space /\ t[2] = Space THEN Squeeze(Tail(t))
  ELSE <<t[1]>> \o Squeeze(Tail(t))

\* body.strip()
Strip(t) ==
  IF \A i \in 1..Len(t) : t[i] = Space THEN <<>>
  ELSE LET a == CHOOSE i \in 1..Len(t) :
                  t[i] # Space /\ \A j \in 1..(i - 1) : t[j] = Space
           b == CHOOSE i \in 1..Len(t) :
                  t[i] # Space /\ \A j \in (i + 1)..Len(t) : t[j] = Space
       IN SubSeq(t, a, b)

\* clean_email_body on a plain body without signature or quoted lines
clean_email_body(body) == IF body = <<>> THEN <<>> ELSE Strip(Squeeze(body))

\* chunk_text is called
chunk_text_frame(text, chunk_size, overlap) ==
  [pc |-> "call", text |-> text, chunk_size |-> chunk_size,
   overlap |-> overlap, words |-> <<>>, start |-> 0, chunks |-> <<>>]

\* chunk_text up to the loop: the two early returns
chunk_text_enter(f) ==
  IF f.text = <<>> THEN [f EXCEPT !.pc = "returned"]
  ELSE LET words == Split(f.text)
       IN IF Len(words) <= f.chunk_size
          THEN [f EXCEPT !.pc = "returned", !.words = words,
                         !.chunks = <<f.text>>]
          ELSE [f EXCEPT !.pc = "loop", !.words = words]

\* one pass of the loop, the next start without the overlap
ChunkPassNoOverlap(f) ==
  IF f.start < Len(f.words)
  THEN LET end == Min(f.start + f.chunk_size, Len(f.words))
           f1 == [f EXCEPT !.chunks =
                    Append(@, Join(SubSeq(f.words, f.start + 1, end)))]
       IN IF end >= Len(f.words)
          THEN [f1 EXCEPT !.pc = "returned"]
          ELSE [f1 EXCEPT !.start = f.start + f.chunk_size]
  ELSE [f EXCEPT !.pc = "returned"]

\* one pass of the loop of chunk_text
chunk_text_pass(f) ==
  IF f.start < Len(f.words)
  THEN LET end == Min(f.start + f.chunk_size, Len(f.words))
           f1 == [f EXCEPT !.chunks =
                    Append(@, Join(SubSeq(f.words, f.start + 1, end)))]
       IN IF end >= Len(f.words)
          THEN [f1 EXCEPT !.pc = "returned"]
          ELSE [f1 EXCEPT !.start = Max(f.start + f.chunk_size - f.overlap,
                                        f.start + 1)]
  ELSE [f EXCEPT !.pc = "returned"]

ChunkEnter ==
  /\ chunker.pc = "call"
  /\ chunker' = chunk_text_enter(chunker)
  /\ UNCHANGED <<current_run, should_stop, is_paused, db, task, run_queues,
                 ghost, ctl, planner, waiter>>

ChunkPass ==
  /\ chunker.pc = "loop"
  /\ chunker' = chunk_text_pass(chunker)
  /\ UNCHANGED <<current_run, should_stop, is_paused, db, task, run_queues,
                 ghost, ctl, planner, waiter>>

InitChunk ==
  /\ current_run = NoRun
  /\ should_stop = FALSE
  /\ is_paused = FALSE
  /\ db = [r \in Runs |-> InitDb]
  /\ task = [r \in Runs |-> InitTask]
  /\ run_queues = [r \in Runs |-> <<>>]
  /\ ghost = [r \in Runs |-> InitGhost]
  /\ ctl = 0
  /\ planner = NoCall
  /\ waiter = NoCall
  /\ \E text \in Texts : \E chunk_size \in 1..MaxChunkSize :
       \E overlap \in 0..MaxOverlap :
         chunker = chunk_text_frame(text, chunk_size, overlap)

NextChunk == ChunkEnter \/ ChunkPass

SpecChunk == InitChunk /\ [][NextChunk]_vars

(***************************************************************************)
(* SpecPlan: the query planner, _generate_queries, on every term list.     *)
(***************************************************************************)
MaxPlanIter == 2        \* largest iteration index planned for

\* the terms tried
PlanTerms == {"Freight", "Shipping", "Label", "Thermal Sensor",
              "Credit Memo", "Waybill"}

\* the term lists without repetition (terms come from list(set(...)))
TermLists ==
  UNION {{l \in [1..n -> PlanTerms] : \A i, j \in 1..n : l[i] = l[j] => i = j}
           : n \in 0..Cardinality(PlanTerms)}

\* the categories a term falls in: any(word in t.lower() for word in [...])

IsLogistics(t) == t \in {"Freight", "Shipping", "Label"}
IsError(t) == t = "Thermal Sensor"
\* ("rma" is part of "thermal")
IsProcess(t) == t \in {"Credit Memo", "Thermal Sensor"}

\* constraint_str: the parts present in the run's configuration
constraint_str(config) ==
  (IF config.after THEN <<"after">> ELSE <<>>)
    \o (IF config.before THEN <<"before">> ELSE <<>>)
    \o (IF config.domains THEN <<"domains">> ELSE <<>>)

Configs == [after : BOOLEAN, before : BOOLEAN, domains : BOOLEAN]

\* _generate_seed_queries: one query per pattern, with the constraints
generate_seed_queries(config) ==
  [i \in 1..NumSeedPatterns |->
     [pattern |-> i, terms |-> <<>>, constraints |-> constraint_str(config)]]

\* the query of one category: its first three terms, quoted and ORed
CategoryQuery(name, category_terms, config) ==
  IF category_terms = <<>> THEN <<>>
  ELSE <<[pattern |-> name, terms |-> Truncate(category_terms, 3),
          constraints |-> constraint_str(config)]>>

\* _generate_expanded_queries with the process query not guarded
ExpandedProcessAlways(terms, config) ==
  LET logistics_terms == SelectSeq(terms, IsLogistics)
      error_terms == SelectSeq(terms, IsError)
      process_terms == SelectSeq(terms, IsProcess)
  IN Truncate(CategoryQuery("logistics", logistics_terms, config)
                \o CategoryQuery("error", error_terms, config)
                \o <<[pattern |-> "process",
                      terms |-> Truncate(process_terms, 3),
                      constraints |-> constraint_str(config)]>>,
              ExpandedCap)

\* _generate_expanded_queries
generate_expanded_queries(terms, config) ==
  LET logistics_terms == SelectSeq(terms, IsLogistics)
      error_terms == SelectSeq(terms, IsError)
      process_terms == SelectSeq(terms, IsProcess)
  IN Truncate(CategoryQuery("logistics", logistics_terms, config)
                \o CategoryQuery("error", error_terms, config)
                \o CategoryQuery("process", process_terms, config),
              ExpandedCap)

\* _generate_queries: the query plans of the iteration
generate_query_plans(terms, iteration, config) ==
  LET queries == IF iteration = 0 THEN generate_seed_queries(config)
                 ELSE generate_expanded_queries(terms, config)
  IN [k \in 1..Len(queries) |->
        [query_str |-> queries[k], rationale |-> iteration, est_hits |-> 0]]

PlanReturns ==
  /\ planner.pc = "call"
  /\ planner' = [planner EXCEPT
                   !.pc = "returned",
                   !.queries = generate_query_plans(planner.terms,
                                                    planner.iteration,
                                                    planner.config)]
  /\ UNCHANGED <<current_run, should_stop, is_paused, db, task, run_queues,
                 ghost, ctl, chunker, waiter>>

InitPlan ==
  /\ current_run = NoRun
  /\ should_stop = FALSE
  /\ is_paused = FALSE
  /\ db = [r \in Runs |-> InitDb]
  /\ task = [r \in Runs |-> InitTask]
  /\ run_queues = [r \in Runs |-> <<>>]
  /\ ghost = [r \in Runs |-> InitGhost]
  /\ ctl = 0
  /\ chunker = NoCall
  /\ waiter = NoCall
  /\ \E terms \in TermLists : \E iteration \in 0..MaxPlanIter :
       \E config \in Configs :
         planner = [pc |-> "call", terms |-> terms, iteration |-> iteration,
                    config |-> config, queries |-> <<>>]

NextPlan == PlanReturns

SpecPlan == InitPlan /\ [][NextPlan]_vars

(***************************************************************************)
(* The claims.                                                             *)
(***************************************************************************)
IsPrefix(s, t) == Len(s) <= Len(t) /\ \A i \in 1..Len(s) : s[i] = t[i]

NoDuplicates(s) == \A i, j \in 1..Len(s) : s[i] = s[j] => i = j

LaterStatuses == {"normalizing", "ranking", "summarizing", "exporting", "done"}

\* the statuses the step writes for run r
Written(r) ==
  {ghost'[r].statusLog[i] :
     i \in (Len(ghost[r].statusLog) + 1)..Len(ghost'[r].statusLog)}

\* C1: with no pause/cancel call and no exception, the statuses written for
\* a run are Queued, Fetching, Normalizing, Ranking, Summarizing, Exporting,
\* Done, in that order, each once; the finished execution has written all.
C1_PhaseOrder ==
  \A r \in Runs :
    (ctl = 0 /\ "failed" \notin Range(ghost[r].statusLog))
      => /\ IsPrefix(ghost[r].statusLog, PhaseOrder)
         /\ (task[r].pc = "idle" /\ db[r].status \notin {NoRun, "queued"})
              => ghost[r].statusLog = PhaseOrder

C1_Witness ==
  /\ ghost["A"].statusLog = PhaseOrder
  /\ db["A"].summaries # <<>>
  /\ Len(task["A"].metrics) = MaxIters

\* C2: a run paused during the retrieval phase, and not resumed, enters
\* none of Normalizing, Ranking, Summarizing, Exporting, Done.
C2_PauseSuspends ==
  \A r \in Runs :
    ghost[r].paused_in = "retrieval" => db[r].status \notin LaterStatuses

\* C3: an execution re-invoked after a pause that took effect at the top of
\* iteration n runs no iteration below n.
C3_ResumeContinues ==
  \A r \in Runs :
    (task[r].pc \in RetrievalPcs /\ ghost[r].pausedAt >= 1)
      => task[r].iteration >= ghost[r].pausedAt

\* C4: once cancel_run was called on a run in a non-terminal state, the
\* run's status is Cancelled and stays Cancelled.
C4_CancelIsFinal ==
  \A r \in Runs :
    ghost[r].cancelled_in \in NonTerminal => db[r].status = "cancelled"

\* C5: while a pause or cancel signalled during Normalizing, Ranking or
\* Summarizing is pending, the task does not start the following phase.
C5_HonouredAtBoundary ==
  [][\A r \in Runs :
       (/\ task[r].pc \in LaterPcs
        /\ \/ (should_stop /\ ghost[r].cancelled_at = "phases")
           \/ (is_paused /\ ghost[r].paused_in = "phases"))
         => Written(r) \cap {"ranking", "summarizing", "exporting", "done"} = {}]_vars

\* C6: once the status of a run is Done, Failed or Cancelled, no step
\* changes that status or the run's records.
C6_TerminalAbsorbing ==
  [][\A r \in Runs :
       db[r].status \in Terminal
         => /\ db'[r].status = db[r].status
            /\ db'[r].messages = db[r].messages
            /\ db'[r].queries = db[r].queries
            /\ db'[r].chunks = db[r].chunks
            /\ db'[r].summaries = db[r].summaries]_vars

\* C7: with both runs executed on the orchestrator, a run ends Cancelled
\* only if cancel_run was addressed to that run: a control call addressed to
\* the other run does not change its final status.
C7_RunsIndependent ==
  \A r \in Runs :
    (db[r].status = "cancelled" /\ \A q \in Runs : ghost[q].execs >= 1)
      => ghost[r].cancelled_in # "never"

\* C8: no two MessageRecords of a run have the same message id.
C8_NoDuplicateMessageRecords ==
  \A r \in Runs : NoDuplicates(db[r].messages)

\* C9: after every completed iteration, |seen_messages| is the number of
\* distinct message ids among the run's MessageRecords and the sum of the
\* new-message counts of the iterations so far.
C9_SeenMatchesRecords ==
  \A r \in Runs :
    Len(task[r].metrics) >= 1
      => /\ Cardinality(task[r].seen_messages)
              = Cardinality(Range(db[r].messages))
         /\ Cardinality(task[r].seen_messages)
              = SumSeq([i \in 1..Len(task[r].metrics) |->
                          task[r].metrics[i].new_messages])

\* the iteration indexes of the TermExpansionRecords of run r
TermIterations(r) ==
  {db[r].terms[k].iteration : k \in 1..Len(db[r].terms)}

\* C10: when two consecutive completed iterations both have novelty-gain
\* below the minimum, the second is the last iteration, its stop reason is
\* the novelty one, and neither a query nor a term expansion follows it.
C10_NoveltyStop ==
  \A r \in Runs :
    \A i \in 2..Len(task[r].metrics) :
      (/\ Below(task[r].metrics[i - 1].novelty_gain, MinNoveltyPct)
       /\ Below(task[r].metrics[i].novelty_gain, MinNoveltyPct))
        => /\ i = Len(task[r].metrics)
           /\ task[r].metrics[i].stop_reason = "novelty"
           /\ task[r].pc \notin RetrievalPcs
           /\ i \notin TermIterations(r)

C10_Witness ==
  /\ Len(task["A"].metrics) = 2
  /\ db["A"].max_iters > 2
  /\ Below(task["A"].metrics[1].novelty_gain, MinNoveltyPct)
  /\ Below(task["A"].metrics[2].novelty_gain, MinNoveltyPct)
  /\ task["A"].metrics[2].stop_reason = "novelty"
  /\ db["A"].status = "done"

\* C11: when two consecutive completed iterations both have precision-proxy
\* below the minimum and novelty-gain is not below its minimum in both, the
\* second is the last iteration and its stop reason is the precision one.
C11_PrecisionStop ==
  \A r \in Runs :
    \A i \in 2..Len(task[r].metrics) :
      (/\ Below(task[r].metrics[i - 1].precision_proxy, MinPrecisionPct)
       /\ Below(task[r].metrics[i].precision_proxy, MinPrecisionPct)
       /\ ~(/\ Below(task[r].metrics[i - 1].novelty_gain, MinNoveltyPct)
            /\ Below(task[r].metrics[i].novelty_gain, MinNoveltyPct)))
        => /\ i = Len(task[r].metrics)
           /\ task[r].metrics[i].stop_reason = "precision"
           /\ task[r].pc \notin RetrievalPcs
           /\ i \notin TermIterations(r)

C11_Witness ==
  /\ Len(task["A"].metrics) = 2
  /\ db["A"].max_iters > 2
  /\ Below(task["A"].metrics[1].precision_proxy, MinPrecisionPct)
  /\ Below(task["A"].metrics[2].precision_proxy, MinPrecisionPct)
  /\ ~Below(task["A"].metrics[2].novelty_gain, MinNoveltyPct)
  /\ task["A"].metrics[2].stop_reason = "precision"
  /\ db["A"].status = "done"

\* an iteration whose novelty-gain and precision-proxy both reach the minimum
Strong(m) ==
  /\ ~Below(m.novelty_gain, MinNoveltyPct)
  /\ ~Below(m.precision_proxy, MinPrecisionPct)

\* C12: the stopping rule looks at the last two completed iterations only:
\* the first iteration never records a stop; iteration n records one only
\* if iterations n-1 and n are both below the novelty minimum or both below
\* the precision minimum; the iteration after a strong one records none, and
\* an iteration without recorded stop that is not the last allowed one is
\* followed by the next iteration.
C12_TrailingWindow ==
  \A r \in Runs :
    LET ms == task[r].metrics
    IN /\ \A i \in 1..Len(ms) :
            ms[i].stop_reason # "none"
              => /\ i >= 2
                 /\ \/ (/\ Below(ms[i - 1].novelty_gain, MinNoveltyPct)
                         /\ Below(ms[i].novelty_gain, MinNoveltyPct))
                    \/ (/\ Below(ms[i - 1].precision_proxy, MinPrecisionPct)
                         /\ Below(ms[i].precision_proxy, MinPrecisionPct))
       /\ \A i \in 1..Len(ms) :
            Strong(ms[i])
              => /\ ms[i].stop_reason = "none"
                 /\ (i < Len(ms) => ms[i + 1].stop_reason = "none")
       /\ (/\ Len(ms) >= 1
           /\ ms[Len(ms)].stop_reason = "none"
           /\ Len(ms) < db[r].max_iters
           /\ ctl = 0)
            => task[r].pc \in RetrievalPcs /\ task[r].iteration = Len(ms)

C12_Witness ==
  LET ms == task["A"].metrics
  IN /\ Len(ms) = 3
     /\ Below(ms[1].novelty_gain, MinNoveltyPct)
     /\ Below(ms[1].precision_proxy, MinPrecisionPct)
     /\ Strong(ms[2])
     /\ Below(ms[3].novelty_gain, MinNoveltyPct)
     /\ Below(ms[3].precision_proxy, MinPrecisionPct)
     /\ ms[3].stop_reason = "none"
     /\ db["A"].status = "done"

\* the step is the raise of the search or of the body fetch of a query of
\* run r: the query ends without a QueryRecord
QueryRaised(r) ==
  /\ task[r].pc \in RetrievalPcs
  /\ task'[r] # task[r]
  /\ task'[r].pc # "fetch"
  /\ db'[r].queries = db[r].queries

\* C13: a provider error on one query is not fatal: the run is not marked
\* Failed, the next query of the iteration is issued, and when every query
\* of iteration 0 raised, iteration 0 is completed with zero new messages
\* and iteration 1 is started (max_iters >= 2, no pause, no cancel).
C13_SearchErrorNonFatal ==
  [][\A r \in Runs :
       QueryRaised(r)
         => /\ "failed" \notin Written(r)
            /\ db'[r].status # "failed"
            /\ (task[r].qidx < generate_queries(task[r].iteration)
                  /\ ~should_stop)
                 => /\ task'[r].pc = "search"
                    /\ task'[r].qidx = task[r].qidx + 1
                    /\ task'[r].iteration = task[r].iteration
            /\ (/\ task[r].qidx = generate_queries(0)
                /\ task[r].iteration = 0
                /\ task[r].queries_tried = 0
                /\ db[r].max_iters >= 2
                /\ ~should_stop /\ ~is_paused)
                 => /\ Len(task'[r].metrics) = 1
                    /\ task'[r].metrics[1].new_messages = 0
                    /\ task'[r].iteration = 1
                    /\ task'[r].pc = "search"]_vars

C13_Witness ==
  /\ task["A"].pc = "search"
  /\ task["A"].iteration = 1
  /\ task["A"].metrics[1].queries_tried = 0
  /\ task["A"].metrics[1].new_messages = 0
  /\ db["A"].queries = <<>>
  /\ db["A"].status = "fetching"

\* the QueryRecords of run r written for iteration index it
RecordsOf(r, it) ==
  {k \in 1..Len(db[r].queries) : db[r].queries[k].iteration = it}

\* C14: every query issued in an iteration has exactly one QueryRecord,
\* whether its provider calls returned or raised: a completed iteration of a
\* run that was not cancelled has as many QueryRecords as planned queries,
\* and the iteration in progress has one per query already done.
C14_OneRecordPerQuery ==
  \A r \in Runs :
    (ctl = 0 /\ ghost[r].execs <= 1)
      => /\ \A i \in 1..Len(task[r].metrics) :
              Cardinality(RecordsOf(r, i - 1)) = generate_queries(i - 1)
         /\ task[r].pc \in RetrievalPcs
              => Cardinality(RecordsOf(r, task[r].iteration))
                   = task[r].qidx - 1

\* C15: a step in which an exception escapes a phase leaves the run Failed
\* with the error attached to its metrics, ends the execution (no later
\* phase is started) and emits no event.
C15_FatalPhaseError ==
  [][\A r \in Runs :
       "failed" \in Written(r)
         => /\ db'[r].status = "failed"
            /\ db'[r].error
            /\ task'[r].pc = "idle"
            /\ Written(r) \cap LaterStatuses = {}
            /\ run_queues'[r] = run_queues[r]]_vars

\* C16: a provider error in the ranking or the summarization phase is
\* recovered inside the phase: no step taken while the task awaits a
\* ranking provider or the summarizer marks the run Failed, and the task
\* goes on with the phase or with the following one.
C16_ProviderErrorLocal ==
  [][\A r \in Runs :
       (task[r].pc \in {"rank", "summarize"} /\ task'[r] # task[r])
         => /\ "failed" \notin Written(r)
            /\ \/ task'[r].pc = "summarize"
               \/ db'[r].status = "done"]_vars

\* C17: execute_run on a run id that is not in the database changes no run,
\* and the status of a run whose max_iters is below 1 never becomes
\* Fetching.
C17_ConfigurationError ==
  [][\A r \in Runs :
       /\ (db[r].status = NoRun /\ ghost'[r].execs > ghost[r].execs)
            => db' = db
       /\ (db[r].status # NoRun /\ db[r].max_iters < 1)
            => "fetching" \notin Written(r)]_vars

\* C18: a step that marks a run Failed or Cancelled deletes and changes
\* none of its MessageRecords, QueryRecords, TermExpansionRecords,
\* ChunkRecords and summaries; the raise of a phase and cancel_run change
\* nothing but the status and the error metric.
C18_NoRollback ==
  [][\A r \in Runs :
       Written(r) \cap {"failed", "cancelled"} # {}
         => /\ IsPrefix(db[r].messages, db'[r].messages)
            /\ IsPrefix(db[r].queries, db'[r].queries)
            /\ IsPrefix(db[r].terms, db'[r].terms)
            /\ db'[r].chunks = db[r].chunks
            /\ db'[r].summaries = db[r].summaries
            /\ (task[r].pc \notin RetrievalPcs \/ task'[r] = task[r])
                 => db'[r] = [db[r] EXCEPT !.status = db'[r].status,
                                           !.error = db'[r].error]]_vars

C18_Witness ==
  /\ db["A"].status = "failed"
  /\ "cancelled" \in Range(ghost["A"].statusLog)
  /\ db["A"].messages # <<>>
  /\ db["A"].queries # <<>>
  /\ db["A"].terms # <<>>
  /\ db["A"].chunks # <<>>

\* the chunk ids of the ChunkRecords of run r, in order
ChunkIdsOf(r) ==
  [k \in 1..Len(db[r].chunks) |->
     <<db[r].chunks[k].gmail_id, db[r].chunks[k].idx>>]

\* C19: no two ChunkRecords of a run executed once have the same chunk id
\* (message id and ordinal index).
C19_UniqueChunkIds ==
  \A r \in Runs : ghost[r].execs <= 1 => NoDuplicates(ChunkIdsOf(r))

\* C20: every message id cited by a bullet of a persisted summary of a run
\* is the id of a MessageRecord of that run.
C20_BulletsCiteRunMessages ==
  \A r \in Runs :
    \A k \in 1..Len(db[r].summaries) :
      db[r].summaries[k].bullets \subseteq Range(db[r].messages)

\* the threads that own at least one selected chunk of run r
SelectedThreads(r) ==
  {ThreadOf(db[r].chunks[k].gmail_id) :
     k \in {j \in 1..Len(db[r].chunks) : db[r].chunks[j].selected}}

\* C21: when the summarization stage is over (the run is Done), every
\* thread with a selected chunk has exactly one summary record and every
\* summary record belongs to such a thread.
C21_OneSummaryPerThread ==
  \A r \in Runs :
    db[r].status = "done"
      => /\ \A t \in SelectedThreads(r) :
              Cardinality({k \in 1..Len(db[r].summaries) :
                             db[r].summaries[k].thread_id = t}) = 1
         /\ \A k \in 1..Len(db[r].summaries) :
              db[r].summaries[k].thread_id \in SelectedThreads(r)

\* C22: while the status of a run is Queued, Fetching or Normalizing, none
\* of its ChunkRecords is selected.
C22_UnselectedBeforeRanking ==
  \A r \in Runs :
    db[r].status \in {"queued", "fetching", "normalizing"}
      => \A k \in 1..Len(db[r].chunks) : ~db[r].chunks[k].selected

\* the ranking stage of run r has run on the chunks the run has now
Ranked(r) ==
  /\ ghost[r].candidates # <<>>
  /\ Len(ghost[r].candidates) = Len(db[r].chunks)

\* C23: after the ranking stage every chunk of the run is still stored, its
\* rerank score is the score the reranker returned for its chunk id, or 0
\* when the reranker left the chunk out, whatever the blended score was, and
\* the chunk is selected exactly when that score is above the threshold.
C23_RerankScoreSelects ==
  \A r \in Runs :
    Ranked(r)
      => \A k \in 1..Len(db[r].chunks) :
           LET ch == db[r].chunks[k]
           IN /\ ChunkId(ch) = ghost[r].candidates[k][1]
              /\ ch.rerank_score = ScoreOf(ghost[r].reranked, ChunkId(ch))
              /\ (\A j \in 1..Len(ghost[r].reranked) :
                     ghost[r].reranked[j][1] # ChunkId(ch))
                   => ch.rerank_score = 0
              /\ ch.selected <=> (ch.rerank_score > RerankThresholdPct)

C23_Witness ==
  /\ Ranked("A")
  /\ Len(db["A"].chunks) > RerankCap
  /\ \E k \in 1..Len(db["A"].chunks) :
       /\ db["A"].chunks[k].selected
       /\ db["A"].chunks[k].rerank_score * 10 # ghost["A"].candidates[k][2]
  /\ \E k \in 1..Len(db["A"].chunks) :
       /\ ~db["A"].chunks[k].selected
       /\ db["A"].chunks[k].rerank_score = RerankThresholdPct
  /\ \E k \in 1..Len(db["A"].chunks) :
       /\ ~db["A"].chunks[k].selected
       /\ db["A"].chunks[k].rerank_score = 0
       /\ ghost["A"].candidates[k][2] > RerankThresholdPct * 10

\* the selection flags of a chunk list
Flags(chunks) == [k \in 1..Len(chunks) |-> chunks[k].selected]

\* the chunk list without what a ranking left on it
Unranked(chunks) ==
  [k \in 1..Len(chunks) |-> Chunk(chunks[k].gmail_id, chunks[k].idx)]

\* C24: with the same provider data, running the ranking stage on the
\* chunks of a run gives the selection flags it gives on the same chunks
\* without flags and scores, and running it once more changes nothing.
C24_RankingIdempotent ==
  \A r \in Runs :
    \A hits \in RankHitSets :
      LET once == hybrid_ranking(db[r].chunks, hits, hits, hits)
      IN /\ Flags(once)
              = Flags(hybrid_ranking(Unranked(db[r].chunks), hits, hits, hits))
         /\ hybrid_ranking(once, hits, hits, hits) = once

C24_Witness ==
  /\ Ranked("A")
  /\ Len(db["A"].chunks) > 2
  /\ \E k \in 1..Len(db["A"].chunks) : db["A"].chunks[k].selected
  /\ \E k \in 1..Len(db["A"].chunks) : ~db["A"].chunks[k].selected
  /\ \E rr \in RankHitSets :
       Flags(hybrid_ranking(db["A"].chunks, {}, {}, rr)) # Flags(db["A"].chunks)

\* C25: after the ranking stage at most Bm25TopK chunks of the run have a
\* lexical score from the index and at most VectorTopK a vector score, and
\* every chunk was blended with 0 for a score it did not get.
C25_SearchCaps ==
  \A r \in Runs :
    Ranked(r)
      => /\ Cardinality({k \in 1..Len(db[r].chunks) :
                           db[r].chunks[k].bm25_score # 0}) <= Bm25TopK
         /\ Cardinality({k \in 1..Len(db[r].chunks) :
                           db[r].chunks[k].knn_score # 0}) <= VectorTopK
         /\ \A k \in 1..Len(db[r].chunks) :
              ghost[r].candidates[k][2]
                = db[r].chunks[k].bm25_score * BlendLexTenths
                    + db[r].chunks[k].knn_score * BlendVecTenths

\* how many times the event type ev is in the queue q
Count(q, ev) == Cardinality({i \in 1..Len(q) : q[i] = ev})

\* C26: a run never has more iteration records than max_iters; a step of
\* the retrieval loop keeps the records it finds unchanged and appends one
\* record exactly when it completes an iteration (iteration_complete).
C26_IterationRecords ==
  [][\A r \in Runs :
       /\ Len(task'[r].metrics) <= db'[r].max_iters
       /\ task[r].pc \in RetrievalPcs
            => /\ IsPrefix(task[r].metrics, task'[r].metrics)
               /\ Len(task'[r].metrics) - Len(task[r].metrics)
                    = Count(run_queues'[r], "iteration_complete")
                        - Count(run_queues[r], "iteration_complete")
               /\ Len(task'[r].metrics) - Len(task[r].metrics) \in {0, 1}]_vars

C26_Witness ==
  /\ db["A"].status = "done"
  /\ db["A"].max_iters = MaxIters
  /\ Len(task["A"].metrics) = MaxIters
  /\ Count(run_queues["A"], "iteration_complete") = MaxIters

\* C27: while iteration n of a retrieval phase issues its queries, the
\* iterations 0..n-1 are the completed ones, in this order and once each;
\* for n >= 1 the last event emitted is the iteration_complete of iteration
\* n-1, the last TermExpansionRecord is the one written for iteration n, and
\* the queries of iteration n were generated from its term set.
C27_IterationsInOrder ==
  \A r \in Runs :
    task[r].pc \in RetrievalPcs
      => /\ Len(task[r].metrics) = task[r].iteration
         /\ \A i \in 1..Len(task[r].metrics) :
              task[r].metrics[i].iteration = i - 1
         /\ task[r].iteration >= 1
              => /\ run_queues[r] # <<>>
                 /\ run_queues[r][Len(run_queues[r])] = "iteration_complete"
                 /\ db[r].terms # <<>>
                 /\ db[r].terms[Len(db[r].terms)].iteration
                      = task[r].iteration
                 /\ task[r].plan_terms
                      = db[r].terms[Len(db[r].terms)].evidence

C27_Witness ==
  /\ task["A"].pc = "search"
  /\ task["A"].iteration = 2
  /\ Len(db["A"].terms) = 2
  /\ db["A"].terms[2].added # {}
  /\ task["A"].plan_terms # InitialTerms

\* C28: run_complete is emitted at most once for a run and only when Done
\* has been written; when the execution of a Done run is over, run_complete
\* is the last event of the run, after every iteration_complete, and the
\* aggregate metrics hold the number of completed iterations and
\* |seen_messages|.
C28_RunCompleteOnce ==
  \A r \in Runs :
    /\ Count(run_queues[r], "run_complete") <= 1
    /\ Count(run_queues[r], "run_complete") = 1
         => "done" \in Range(ghost[r].statusLog)
    /\ (db[r].status = "done" /\ task[r].pc = "idle")
         => /\ Count(run_queues[r], "run_complete") = 1
            /\ run_queues[r][Len(run_queues[r])] = "run_complete"
            /\ db[r].agg = <<Len(task[r].metrics),
                             Cardinality(task[r].seen_messages)>>

\* the terminal event of a final status
TerminalEvent(st) ==
  IF st = "done" THEN "run_complete"
  ELSE IF st = "failed" THEN "run_failed"
  ELSE "run_cancelled"

\* C29: when an execution of a run is over and the run is Done, Failed or
\* Cancelled, the last event on the run's stream is the terminal event of
\* that status, and it is there once for this execution.
C29_TerminalEvent ==
  \A r \in Runs :
    (task[r].pc = "idle" /\ ghost[r].execs = 1 /\ db[r].status \in Terminal)
      => /\ run_queues[r] # <<>>
         /\ run_queues[r][Len(run_queues[r])] = TerminalEvent(db[r].status)
         /\ Count(run_queues[r], TerminalEvent(db[r].status)) = 1

\* C30: a term expansion keeps every current term: no step of the
\* retrieval loop takes a term out of the active term set, the expansion
\* of the messages of the iteration contains the current terms, and every
\* TermExpansionRecord has an empty removed list.
C30_TermsNeverRemoved ==
  [][\A r \in Runs :
       /\ \A k \in 1..Len(db'[r].terms) : db'[r].terms[k].removed = {}
       /\ task[r].pc \in RetrievalPcs
            => /\ task[r].current_terms \subseteq task'[r].current_terms
               /\ task[r].current_terms
                    \subseteq expand_terms(task[r].iteration_messages,
                                           task[r].current_terms)
       /\ Len(db'[r].terms) > Len(db[r].terms)
            => /\ task[r].current_terms
                    \subseteq db'[r].terms[Len(db'[r].terms)].evidence
               /\ db'[r].terms[Len(db'[r].terms)].evidence
                    = task'[r].current_terms]_vars

C30_Witness ==
  /\ Len(db["A"].terms) = 2
  /\ db["A"].terms[1].added # {}
  /\ db["A"].terms[2].added # {}
  /\ db["A"].terms[1].evidence \subseteq db["A"].terms[2].evidence
  /\ \E t \in db["A"].terms[2].evidence : t < 0

\* the word count of the text of the chunk_text call
NumWords == Len(Split(chunker.text))

\* ceil(a / b) for b > 0
CeilDiv(a, b) == (a + b - 1) \div b

\* C31: with overlap < chunk_size, chunk_text returns
\* ceil((L - O) / (C - O)) chunks for a text of L > C words and exactly one
\* chunk for a text of at most C words.
C31_ChunkCount ==
  (chunker.pc = "returned" /\ chunker.overlap < chunker.chunk_size)
    => Len(chunker.chunks)
         = IF NumWords > chunker.chunk_size
           THEN CeilDiv(NumWords - chunker.overlap,
                        chunker.chunk_size - chunker.overlap)
           ELSE 1

\* the words from position k + 1 on
DropWords(ws, k) == SubSeq(ws, k + 1, Len(ws))

RECURSIVE Reconstruct(_, _)
\* the words of the chunks, the first o words of every chunk left out
Reconstruct(chs, o) ==
  IF chs = <<>> THEN <<>>
  ELSE DropWords(Split(Head(chs)), o) \o Reconstruct(Tail(chs), o)

\* C32: with overlap < chunk_size, the words of the first chunk followed by
\* the words of every later chunk without its first O words are the words
\* of the text, and every chunk starts with the last O words of the chunk
\* before it.
C32_Reconstruction ==
  (chunker.pc = "returned" /\ chunker.overlap < chunker.chunk_size)
    => /\ (IF chunker.chunks = <<>> THEN <<>>
           ELSE Split(chunker.chunks[1])
                  \o Reconstruct(Tail(chunker.chunks), chunker.overlap))
            = Split(chunker.text)
       /\ \A k \in 1..(Len(chunker.chunks) - 1) :
            LET a == Split(chunker.chunks[k])
                b == Split(chunker.chunks[k + 1])
            IN /\ Len(a) >= chunker.overlap
               /\ Len(b) > chunker.overlap
               /\ DropWords(a, Len(a) - chunker.overlap)
                    = SubSeq(b, 1, chunker.overlap)

C32_Witness ==
  /\ chunker.pc = "returned"
  /\ chunker.overlap = 1
  /\ chunker.chunk_size = 2
  /\ Len(chunker.chunks) = 2
  /\ Len(Split(chunker.chunks[2])) = 2
  /\ \E k \in 1..Len(chunker.words) : Len(chunker.words[k]) = 2
  /\ \E i \in 1..(Len(chunker.text) - 1) :
       chunker.text[i] = Space /\ chunker.text[i + 1] = Space

\* C33: chunking the cleaned body of a message gives at least one chunk,
\* no chunk without a word, and exactly one chunk when the body has at most
\* chunk_size words (an empty body included).
C33_OneNonEmptyChunk ==
  (chunker.pc = "returned" /\ chunker.text = clean_email_body(chunker.text))
    => /\ Len(chunker.chunks) >= 1
       /\ \A k \in 1..Len(chunker.chunks) : Split(chunker.chunks[k]) # <<>>
       /\ NumWords <= chunker.chunk_size => Len(chunker.chunks) = 1

\* the categories that have a term in the term list of the planner call
NonEmptyCategories ==
  {b \in {"logistics", "error", "process"} :
     \E k \in 1..Len(planner.terms) :
       \/ b = "logistics" /\ IsLogistics(planner.terms[k])
       \/ b = "error" /\ IsError(planner.terms[k])
       \/ b = "process" /\ IsProcess(planner.terms[k])}

\* C34: for an iteration >= 1 the planner returns one query per category
\* that has a term and no other query, at most 3; for iteration 0 it
\* returns the seed queries, one per pattern in order, whatever the terms.
C34_PlannerQueries ==
  planner.pc = "returned"
    => IF planner.iteration = 0
       THEN /\ Len(planner.queries) = NumSeedPatterns
            /\ \A k \in 1..NumSeedPatterns :
                 /\ planner.queries[k].query_str.pattern = k
                 /\ planner.queries[k].query_str.terms = <<>>
       ELSE /\ Len(planner.queries) <= 3
            /\ Len(planner.queries) = Cardinality(NonEmptyCategories)
            /\ \A b \in NonEmptyCategories :
                 Cardinality({k \in 1..Len(planner.queries) :
                                planner.queries[k].query_str.pattern = b}) = 1
            /\ \A k \in 1..Len(planner.queries) :
                 planner.queries[k].query_str.pattern \in NonEmptyCategories

C34_Witness ==
  /\ planner.pc = "returned"
  /\ planner.iteration = 2
  /\ Len(planner.terms) = Cardinality(PlanTerms)
  /\ Len(planner.queries) = 3
  /\ Len(planner.queries[1].query_str.terms) = 3

\* a ratio <<n, d>> that is a number of [0, 1]: d is not 0
InUnitInterval(ratio) == ratio[2] >= 1 /\ 0 <= ratio[1] /\ ratio[1] <= ratio[2]

\* C35: the novelty gain of every IterationRecord is the number of threads
\* new in its iteration over max(|seen_threads| after the iteration, 1),
\* the precision proxy is 0 when the iteration fetched no message, both
\* lie in [0, 1] and no denominator is 0.  The messages of the iteration
\* are the MessageRecords stored with the IterationRecord.
C35_MetricsInRange ==
  [][\A r \in Runs :
       /\ \A i \in 1..Len(task'[r].metrics) :
            /\ InUnitInterval(task'[r].metrics[i].novelty_gain)
            /\ InUnitInterval(task'[r].metrics[i].precision_proxy)
       /\ Len(task'[r].metrics) = Len(task[r].metrics) + 1
            => LET m == task'[r].metrics[Len(task'[r].metrics)]
                   fetched == SubSeq(db'[r].messages, Len(db[r].messages) + 1,
                                     Len(db'[r].messages))
                   new == {ThreadOf(g) : g \in Range(fetched)}
                            \ task[r].seen_threads
               IN /\ m.novelty_gain[1] = Cardinality(new)
                  /\ m.novelty_gain[2]
                       = Max(Cardinality(task'[r].seen_threads), 1)
                  /\ task'[r].seen_threads = task[r].seen_threads \cup new
                  /\ fetched = <<>> => m.precision_proxy[1] = 0]_vars

C35_Witness ==
  /\ Len(task["A"].metrics) = 3
  /\ task["A"].metrics[1].novelty_gain = <<0, 1>>
  /\ task["A"].metrics[1].precision_proxy = <<0, 1>>
  /\ task["A"].metrics[2].novelty_gain = <<1, 1>>
  /\ task["A"].metrics[2].precision_proxy = <<1, 1>>
  /\ task["A"].metrics[3].novelty_gain = <<1, 2>>

\* cancel_run was called for run r during the retrieval phase of the
\* execution that is under way
CancelledInRetrieval(r) ==
  /\ ghost[r].cancelled_at = "retrieval"
  /\ ghost[r].cancelled_exec = ghost[r].execs
  /\ task[r].pc \in RetrievalPcs

\* C36: once cancel_run was called during the retrieval phase of an
\* execution, the execution issues no further gmail.search call, and when
\* it leaves the retrieval phase it writes Cancelled and ends, without
\* writing Normalizing.
C36_CancelStopsSearches ==
  [][\A r \in Runs :
       CancelledInRetrieval(r)
         => /\ task'[r].pc = "search"
                 => /\ task[r].pc = "search"
                    /\ task'[r].qidx = task[r].qidx
                    /\ task'[r].iteration = task[r].iteration
                    /\ db'[r].queries = db[r].queries
            /\ task'[r].pc \notin RetrievalPcs
                 => /\ task'[r].pc = "idle"
                    /\ db'[r].status = "cancelled"
                    /\ "normalizing"
                         \notin Range(SubSeq(ghost'[r].statusLog,
                                             Len(ghost[r].statusLog) + 1,
                                             Len(ghost'[r].statusLog)))]_vars

\* C37: an execution whose provider calls all come back makes at most
\* max_iters iterations and ends, and when no pause was made the run then
\* has status Done, Failed or Cancelled.
C37_ExecutionTerminates ==
  \A r \in {"A"} :
    /\ [](Len(task[r].metrics) <= db[r].max_iters)
    /\ (task[r].pc # "idle")
         ~> (/\ task[r].pc = "idle"
             /\ \/ "paused" \in Range(ghost[r].statusLog)
                \/ db[r].status \in Terminal)

C37_Witness ==
  /\ task["A"].pc = "idle"
  /\ ghost["A"].execs = 1
  /\ Len(task["A"].metrics) = CtlIters
  /\ "paused" \notin Range(ghost["A"].statusLog)
  /\ ghost["A"].cancelled_at = "phases"
  /\ db["A"].status = "done"

RECURSIVE IsSubseq(_, _)
\* s is t with some entries left out, the others in the order of t
IsSubseq(s, t) ==
  IF s = <<>> THEN TRUE
  ELSE IF t = <<>> THEN FALSE
  ELSE IF Head(s) = Head(t) THEN IsSubseq(Tail(s), Tail(t))
  ELSE IsSubseq(s, Tail(t))

\* C38: a call of wait_for_run_event returns in the end; it returns an
\* event of a type waited for, or None, and None only when the queue holds
\* no event of a type waited for; when it returns, the other events are all
\* still in the queue, in the order they were emitted in.
C38_WaitForRunEvent ==
  /\ (waiter.pc \in {"get", "got"}) ~> (waiter.pc = "returned")
  /\ [][(waiter.pc # "returned" /\ waiter'.pc = "returned")
          => LET q == run_queues'[waiter'.run]
                 emitted == ghost'[waiter'.run].emitted
             IN /\ waiter'.result \in waiter'.event_types \cup {"None"}
                /\ waiter'.result = "None"
                     => \A k \in 1..Len(q) : q[k] \notin waiter'.event_types
                /\ IsSubseq(q, emitted)
                /\ \A ev \in Range(emitted) :
                     Count(q, ev) + (IF waiter'.result = ev THEN 1 ELSE 0)
                       = Count(emitted, ev)]_vars

\* C39: chunk_text terminates for every chunk_size >= 1 and overlap >= 0:
\* in the loop the start position is below the number of words and at
\* least the number of passes made, and the number of chunks is at most the
\* number of words, also when it has returned.
C39_ChunkTextTerminates ==
  /\ chunker.pc = "loop"
       => /\ chunker.start < Len(chunker.words)
          /\ chunker.start >= Len(chunker.chunks)
  /\ chunker.pc \in {"loop", "returned"}
       => Len(chunker.chunks) <= NumWords

====
